---- MODULE Spec2Model ----
(***************************************************************************)
(* Directed hypergraph store with a unified similarity index              *)
(* (hypergraph2.py) and the RAG layer on top of it (ragsystem2.py).       *)
(*                                                                         *)
(* Texts are sequences of one-character strings.  An embedding is         *)
(* represented by the token sequence the uncased BERT tokenizer of        *)
(* "bert-base-nli-mean-tokens" feeds to the network: two texts have the   *)
(* same vector exactly when they tokenize alike; distances are counted in *)
(* units of 0.0001.                                                        *)
(***************************************************************************)
EXTENDS Integers, Sequences, FiniteSets, TLC

\* ------------------------------------------------------------------------
\* Bounds of the model
\* ------------------------------------------------------------------------

\* Largest number of objects (nodes and hyperedges) a run may store.
MaxObjects == 4

\* ------------------------------------------------------------------------
\* Characters and texts
\* ------------------------------------------------------------------------

\* str.lower() on the characters in use.
LowerChar(c) == IF c = "A" THEN "a" ELSE IF c = "B" THEN "b" ELSE c

\* \s of the regular expression and of str.strip().
IsSpace(c) == c = " "

\* \w of the regular expression, on the characters in use.
IsWord(c) == c \in {"a", "A", "b", "B", "r", "_"}

\* str.strip(): drop leading whitespace.
RECURSIVE LStrip(_)
LStrip(s) ==
    IF s = <<>> THEN <<>>
    ELSE IF IsSpace(Head(s)) THEN LStrip(Tail(s)) ELSE s

\* str.strip(): drop trailing whitespace.
RECURSIVE RStrip(_)
RStrip(s) ==
    IF s = <<>> THEN <<>>
    ELSE IF IsSpace(s[Len(s)]) THEN RStrip(SubSeq(s, 1, Len(s) - 1)) ELSE s

Strip(s) == RStrip(LStrip(s))

\* re.sub(r"[^\w\s]", "", string)
RemovePunctuation(s) == SelectSeq(s, LAMBDA c : IsWord(c) \/ IsSpace(c))

\* str.lower()
Lower(s) == [i \in 1..Len(s) |-> LowerChar(s[i])]

\* helper_functions.clean_string: strip, then remove punctuation, then lower.
clean_string(string) == Lower(RemovePunctuation(Strip(string)))

\* ", ".join(parts)
RECURSIVE Join(_)
Join(parts) ==
    IF parts = <<>> THEN <<>>
    ELSE IF Len(parts) = 1 THEN parts[1]
    ELSE parts[1] \o <<",", " ">> \o Join(Tail(parts))

\* ------------------------------------------------------------------------
\* Embedder and vector index
\* ------------------------------------------------------------------------

\* Tokens of a text: lower-cased words split at whitespace, every punctuation
\* character a token of its own.  acc is the tokens so far, word the word
\* being read.
RECURSIVE Tokens(_, _, _)
Tokens(s, acc, word) ==
    LET flush == IF word = <<>> THEN acc ELSE Append(acc, word) IN
    IF s = <<>> THEN flush
    ELSE IF IsSpace(Head(s)) THEN Tokens(Tail(s), flush, <<>>)
    ELSE IF IsWord(Head(s)) THEN Tokens(Tail(s), acc, Append(word, LowerChar(Head(s))))
    ELSE Tokens(Tail(s), Append(flush, <<Head(s)>>), <<>>)

\* transformer.encode([text]): the vector of a text.
encode(text) == Tokens(text, <<>>, <<>>)

\* The threshold of add_node, 0.0001, in units of 0.0001.
DuplicateEps == 1

\* Squared L2 distance of two vectors: 0 for the same vector, beyond the
\* threshold for vectors of different token sequences.
L2(u, v) == IF u = v THEN 0 ELSE DuplicateEps + 1

\* Distance faiss reports for a missing neighbour (the largest float): like
\* every distance beyond the threshold, it reads as "no such node yet".
NoNeighbour == DuplicateEps + 2

\* Slot ids of an index holding n vectors (faiss numbers them from 0).
Slots(index) == 0 .. (Len(index) - 1)

\* Distance from v to the vector in a slot.
SlotDistance(index, v, i) == L2(index[i + 1], v)

\* IndexFlatL2.search(v, k): the sets of slots that can be the k nearest of v.
\* All k slots when the index holds no more; no slot left out is nearer than
\* a chosen one.  Which of several equally distant slots is chosen is the
\* library's business.
NearestSets(index, v, k) ==
    LET n == Len(index)
        m == IF k < n THEN k ELSE n
    IN  { S \in SUBSET Slots(index) :
            /\ Cardinality(S) = m
            /\ \A i \in S : \A j \in Slots(index) \ S :
                   SlotDistance(index, v, i) <= SlotDistance(index, v, j) }

\* The slots of S by increasing distance, then slot id.
RECURSIVE ByDistance(_, _, _)
ByDistance(index, v, S) ==
    IF S = {} THEN <<>>
    ELSE LET first == CHOOSE i \in S : \A j \in S :
                          \/ SlotDistance(index, v, i) < SlotDistance(index, v, j)
                          \/ /\ SlotDistance(index, v, i) = SlotDistance(index, v, j)
                             /\ i <= j
         IN  <<first>> \o ByDistance(index, v, S \ {first})

\* The label row I[0] of a search: the chosen slots, filled up to k with -1.
Labels(index, v, S, k) ==
    ByDistance(index, v, S) \o [i \in 1..(k - Cardinality(S)) |-> -1]

\* The distance row D[0] that goes with a label row.
Distances(index, v, labels) ==
    [i \in 1..Len(labels) |->
        IF labels[i] = -1 THEN NoNeighbour ELSE SlotDistance(index, v, labels[i])]

\* All results [D, I] of IndexFlatL2.search(v, k).
Search(index, v, k) ==
    { [I |-> labels, D |-> Distances(index, v, labels)] :
        labels \in { Labels(index, v, S, k) : S \in NearestSets(index, v, k) } }

\* list[i] of Python: a negative i counts from the end; "IndexError" when
\* out of range.
InRange(list, i) == (i >= 0 /\ i < Len(list)) \/ (i < 0 /\ -i <= Len(list))
PyItem(list, i) == IF i >= 0 THEN list[i + 1] ELSE list[Len(list) + i + 1]

\* ------------------------------------------------------------------------
\* Objects
\* ------------------------------------------------------------------------

\* A reference to an object: its class and its uuid.
NodeRef(id) == [cls |-> "Node", id |-> id]
EdgeRef(id) == [cls |-> "Hyperedge", id |-> id]

\* isinstance(obj, Node), isinstance(obj, Hyperedge)
IsNode(obj) == obj.cls = "Node"
IsHyperedge(obj) == obj.cls = "Hyperedge"

\* The Node object with this uuid (every Node ever made is in h.nodes).
NodeOf(h, id) == CHOOSE n \in { h.nodes[i] : i \in 1..Len(h.nodes) } : n.id = id

\* All orders in which a set can be iterated.
RECURSIVE Orders(_)
Orders(S) ==
    IF S = {} THEN {<<>>}
    ELSE UNION { { <<x>> \o rest : rest \in Orders(S \ {x}) } : x \in S }

\* ------------------------------------------------------------------------
\* Hypergraph
\* ------------------------------------------------------------------------

VARIABLES
    nodes,       \* Hypergraph.nodes: the Node objects, in insertion order
    edges,       \* Hypergraph.edges: the Hyperedge objects, in insertion order
    n_nodes,     \* Hypergraph.n_nodes
    n_edges,     \* Hypergraph.n_edges
    index,       \* Hypergraph._index: the vectors of the faiss index, by slot
    index_objs,  \* Hypergraph._index_objs: the object of each slot
    uuid,        \* number of uuids drawn so far (uuid4 never repeats)
    last         \* the last call: its operation, arguments and outcome

vars == <<nodes, edges, n_nodes, n_edges, index, index_objs, uuid, last>>

\* The hypergraph as one value.
HG ==
    [nodes |-> nodes, edges |-> edges, n_nodes |-> n_nodes, n_edges |-> n_edges,
     index |-> index, index_objs |-> index_objs, uuid |-> uuid]

\* Hypergraph.__init__
EmptyHypergraph ==
    [nodes |-> <<>>, edges |-> <<>>, n_nodes |-> 0, n_edges |-> 0,
     index |-> <<>>, index_objs |-> <<>>, uuid |-> 0]

\* add_node: "D[0][0] > 0.0001", the node does not exist yet.
IsNew(D) == D > DuplicateEps

\* A sequence number that starts at 1.
NextNodeNumberFromOne(h) == h.n_nodes + 1

\* add_node: the node_number given to a new node.
NextNodeNumber(h) == h.n_nodes

\* Hypergraph.add_node(data): the outcomes [h, ret], h the hypergraph after
\* the call and ret the object returned.
add_node(h, data) ==
    UNION {
      { IF IsNew(r.D[1])
        THEN [h |-> [h EXCEPT
                       !.nodes = Append(@, [id |-> h.uuid, data |-> data,
                                            node_number |-> NextNodeNumber(h)]),
                       !.index = Append(@, encode(clean_string(data))),
                       !.index_objs = Append(@, NodeRef(h.uuid)),
                       !.n_nodes = @ + 1,
                       !.uuid = @ + 1],
              ret |-> NodeRef(h.uuid)]
        ELSE [h |-> h, ret |-> PyItem(h.index_objs, r.I[1])]
        : r \in Search(h.index, encoded, 1) }
      : encoded \in { encode(data) } }

\* add_edge: the string indexed for an edge, its sources and targets joined
\* in the orders its sets are iterated in.
IndexTerm(h, source_order, target_order, relation) ==
    Join([i \in 1..Len(source_order) |->
             clean_string(NodeOf(h, source_order[i].id).data)])
    \o <<" ", "-", " ">> \o relation \o <<" ", "-", " ">> \o
    Join([i \in 1..Len(target_order) |->
             clean_string(NodeOf(h, target_order[i].id).data)])

\* An add_edge that returns the stored edge with these sources, targets and
\* relation when there is one, and stores a new edge only otherwise.
add_edge_dedup(h, sources, targets, relation) ==
    LET same == { i \in 1..Len(h.edges) :
                    /\ h.edges[i].sources = sources
                    /\ h.edges[i].targets = targets
                    /\ h.edges[i].relation = relation }
    IN  IF same # {}
        THEN { [h |-> h, status |-> "ok", ret |-> EdgeRef(h.edges[i].id)] : i \in same }
        ELSE { [h |-> [h EXCEPT
                         !.edges = Append(@, [id |-> h.uuid, sources |-> sources,
                                              targets |-> targets, relation |-> relation]),
                         !.uuid = @ + 1,
                         !.index = Append(@, encode(IndexTerm(h, so, to, relation))),
                         !.index_objs = Append(@, EdgeRef(h.uuid)),
                         !.n_edges = @ + 1],
                status |-> "ok", ret |-> EdgeRef(h.uuid)]
               : so \in Orders(sources), to \in Orders(targets) }

\* Hypergraph.add_edge(sources, targets, relation): the outcomes
\* [h, status, ret].  The edge is stored first; reading .data of an object
\* that is no Node then raises AttributeError.
add_edge(h, sources, targets, relation) ==
    LET edge == [id |-> h.uuid, sources |-> sources, targets |-> targets,
                 relation |-> relation]
        stored == [h EXCEPT !.edges = Append(@, edge), !.uuid = @ + 1]
    IN  IF \E obj \in sources \cup targets : ~IsNode(obj)
        THEN { [h |-> stored, status |-> "AttributeError", ret |-> EdgeRef(h.uuid)] }
        ELSE { [h |-> [stored EXCEPT
                         !.index = Append(@, encode(IndexTerm(h, so, to, relation))),
                         !.index_objs = Append(@, EdgeRef(h.uuid)),
                         !.n_edges = @ + 1],
                status |-> "ok", ret |-> EdgeRef(h.uuid)]
               : so \in Orders(sources), to \in Orders(targets) }

\* Hypergraph.query(criteria, top_k): the outcomes [status, nodes, edges].
\* A label -1 of the search reads the last object, and raises IndexError
\* when there is none.
query(h, criteria, top_k) ==
    UNION {
      { IF \E i \in 1..Len(r.I) : ~InRange(h.index_objs, r.I[i])
        THEN [status |-> "IndexError", nodes |-> {}, edges |-> {}]
        ELSE LET results == [i \in 1..Len(r.I) |-> PyItem(h.index_objs, r.I[i])]
             IN  [status |-> "ok",
                  nodes |-> { results[i] : i \in { j \in 1..Len(results) : IsNode(results[j]) } },
                  edges |-> { results[i] : i \in { j \in 1..Len(results) : IsHyperedge(results[j]) } }]
        : r \in Search(h.index, encoded_criteria, top_k) }
      : encoded_criteria \in { encode(criteria) } }

\* The Hyperedge object with this uuid.
EdgeOf(h, id) == CHOOSE e \in { h.edges[i] : i \in 1..Len(h.edges) } : e.id = id

\* Hypergraph.save: the outcomes [status, H, nodes_data, edges_data], H[r][c]
\* the entry of row r and column c of the incidence matrix written, the
\* other two the lists written as JSON.  The matrix has n_edges columns and
\* the loop one column per stored edge; a member that is no Node has no
\* node_number.  Where both go wrong the member iterated first decides.
\* Nothing is written when the loop raises.
save(h) ==
    LET members(c) == h.edges[c].sources \cup h.edges[c].targets
        colOK(c) == c <= h.n_edges /\ \A obj \in members(c) : IsNode(obj)
        numbers(objs) == { NodeOf(h, obj.id).node_number : obj \in objs }
        raised(obj) == IF IsNode(obj) THEN "IndexError" ELSE "AttributeError"
        failed(status) ==
            [status |-> status, H |-> <<>>, nodes_data |-> <<>>, edges_data |-> <<>>]
    IN  IF \E c \in 1..Len(h.edges) : ~colOK(c)
        THEN LET bad == CHOOSE c \in 1..Len(h.edges) :
                            ~colOK(c) /\ \A d \in 1..(c - 1) : colOK(d)
                 firsts == IF h.edges[bad].sources # {}
                           THEN h.edges[bad].sources ELSE h.edges[bad].targets
             IN  IF bad <= h.n_edges
                 THEN { failed("AttributeError") }
                 ELSE { failed(raised(obj)) : obj \in firsts }
        ELSE { [status |-> "ok",
                H |-> [r \in 0..(h.n_nodes - 1) |->
                         [c \in 0..(h.n_edges - 1) |->
                             IF r \in numbers(h.edges[c + 1].targets) THEN -1
                             ELSE IF r \in numbers(h.edges[c + 1].sources) THEN 1
                             ELSE 0]],
                nodes_data |-> [i \in 1..Len(h.nodes) |-> h.nodes[i].data],
                edges_data |-> [i \in 1..Len(h.edges) |-> h.edges[i].relation]] }

\* ------------------------------------------------------------------------
\* RAGSystem
\* ------------------------------------------------------------------------

\* non_blank(str) of parameters_validation: the argument is empty or only
\* whitespace.
IsBlank(string) == Strip(string) = <<>>

\* add_knowledge: some concept, cleaned, is among the cleaned related
\* concepts ("A concept can not be twice in source-target relationship.").
RepeatedConcept(concepts, related_concepts) ==
    \E i \in 1..Len(concepts) : \E j \in 1..Len(related_concepts) :
        clean_string(concepts[i]) = clean_string(related_concepts[j])

\* The loops of add_knowledge over a list of concepts: the outcomes [h, objs]
\* of add_node on each concept in turn, objs the set of objects returned.
RECURSIVE AddNodes(_, _, _)
AddNodes(h, concept_list, objs) ==
    IF concept_list = <<>> THEN { [h |-> h, objs |-> objs] }
    ELSE UNION { AddNodes(o.h, Tail(concept_list), objs \cup {o.ret})
                 : o \in add_node(h, Head(concept_list)) }

\* RAGSystem.add_knowledge(concepts, related_concepts, relation): the outcomes
\* [h, status].
add_knowledge(h, concepts, related_concepts, relation) ==
    IF IsBlank(relation) THEN { [h |-> h, status |-> "ValidationError"] }
    ELSE IF concepts = <<>> \/ related_concepts = <<>>
    THEN { [h |-> h, status |-> "noop"] }
    ELSE IF RepeatedConcept(concepts, related_concepts)
    THEN { [h |-> h, status |-> "Exception"] }
    ELSE UNION { UNION { { [h |-> e.h, status |-> e.status]
                           : e \in add_edge(t.h, s.objs, t.objs, relation) }
                         : t \in AddNodes(s.h, related_concepts, {}) }
                 : s \in AddNodes(h, concepts, {}) }

\* retrieve: the bullet line of an edge, its sources and targets in the
\* orders the sets are iterated in.
EdgeLine(h, edge, source_order, target_order) ==
    <<"*", " ">>
    \o Join([i \in 1..Len(source_order) |-> NodeOf(h, source_order[i].id).data])
    \o <<" ", "-", " ">> \o edge.relation \o <<" ", "-", " ">>
    \o Join([i \in 1..Len(target_order) |-> NodeOf(h, target_order[i].id).data])
    \o <<"\n">>

\* retrieve: the bullet line of an isolated node.
NodeLine(h, node) == <<"*", " ">> \o NodeOf(h, node.id).data \o <<"\n">>

\* retrieve: the ways to write the lines of the edges in edge_order.
RECURSIVE EdgeLines(_, _)
EdgeLines(h, edge_order) ==
    IF edge_order = <<>> THEN {<<>>}
    ELSE LET edge == EdgeOf(h, Head(edge_order).id)
         IN  { <<[bullet |-> "edge", obj |-> Head(edge_order),
                  text |-> EdgeLine(h, edge, so, to)]>> \o rest
               : so \in Orders(edge.sources), to \in Orders(edge.targets),
                 rest \in EdgeLines(h, Tail(edge_order)) }

\* A retrieve that lists every returned node, seen or not.
SeenNever(seen_nodes, node) == FALSE

\* retrieve: "node.id in seen_nodes"
Seen(seen_nodes, node) == node.id \in seen_nodes

\* retrieve: the lines of the nodes in node_order that are not seen.
RECURSIVE NodeLines(_, _, _)
NodeLines(h, node_order, seen_nodes) ==
    IF node_order = <<>> THEN <<>>
    ELSE (IF Seen(seen_nodes, Head(node_order)) THEN <<>>
          ELSE <<[bullet |-> "node", obj |-> Head(node_order),
                  text |-> NodeLine(h, Head(node_order))]>>)
         \o NodeLines(h, Tail(node_order), seen_nodes)

\* RAGSystem.retrieve(query, top_k): the outcomes
\* [status, nodes, edges, knowledge]; knowledge is the text returned, as the
\* sequence of its lines, nodes and edges what Hypergraph.query returned.
retrieve(h, query_text, top_k) ==
    LET failed(status) ==
            [status |-> status, nodes |-> {}, edges |-> {}, knowledge |-> <<>>]
    IN  IF IsBlank(query_text) THEN { failed("ValidationError") }
        ELSE IF top_k <= 0 THEN { failed("Exception") }
        ELSE UNION {
               IF q.status # "ok" THEN { failed(q.status) }
               ELSE IF \E e \in q.edges : \E obj \in EdgeOf(h, e.id).sources \cup
                                                     EdgeOf(h, e.id).targets : ~IsNode(obj)
               THEN { failed("AttributeError") }
               ELSE LET seen_nodes ==
                            UNION { { obj.id : obj \in EdgeOf(h, e.id).sources \cup
                                                       EdgeOf(h, e.id).targets }
                                    : e \in q.edges }
                    IN  { [status |-> "ok", nodes |-> q.nodes, edges |-> q.edges,
                           knowledge |-> el \o NodeLines(h, no, seen_nodes)]
                          : el \in UNION { EdgeLines(h, eo) : eo \in Orders(q.edges) },
                            no \in Orders(q.nodes) }
               : q \in query(h, query_text, top_k) }

\* ------------------------------------------------------------------------
\* The calls a client makes
\* ------------------------------------------------------------------------

\* Concept texts in use: "a", the same in upper case, the same behind
\* punctuation and a space, and another word.
Texts == { <<"a">>, <<"A">>, <<"!", " ", "a">>, <<"b">> }

\* The stored edges whose members are all Nodes.
SoundEdges(h) ==
    { e \in { h.edges[i] : i \in 1..Len(h.edges) } :
        \A obj \in e.sources \cup e.targets : IsNode(obj) }

\* The composite descriptions "<sources> - <relation> - <targets>" of the
\* stored edges.
EdgeTerms(h) ==
    UNION { { IndexTerm(h, so, to, e.relation)
              : so \in Orders(e.sources), to \in Orders(e.targets) }
            : e \in SoundEdges(h) }

\* Texts a client passes as a concept.
InputTexts(h) == Texts \cup EdgeTerms(h)

\* Lists a client passes as concepts or related concepts: the empty list,
\* every one-concept list and a list of two concepts.
ConceptLists(h) ==
    {<<>>} \cup { <<t>> : t \in InputTexts(h) } \cup { << <<"a">>, <<"b">> >> }

\* The arguments of the add_knowledge calls a client makes: every pair of
\* lists with the relation "r", and a call with a blank relation.
KnowledgeCalls(h) ==
    { <<concepts, related_concepts, <<"r">> >> :
        concepts \in ConceptLists(h), related_concepts \in ConceptLists(h) }
    \cup { << << <<"a">> >>, << <<"b">> >>, <<" ">> >> }

\* Texts a client queries for.
Criteria == { <<"a">>, <<"b">> }

\* The references to the stored nodes.
StoredNodes(h) == { NodeRef(h.nodes[i].id) : i \in 1..Len(h.nodes) }

\* The references to the stored edges.
StoredEdges(h) == { EdgeRef(h.edges[i].id) : i \in 1..Len(h.edges) }

\* A run stores at most MaxObjects objects.
Fits(h) == Len(h.nodes) + Len(h.edges) <= MaxObjects

\* The hypergraph becomes h.
Becomes(h) ==
    /\ nodes' = h.nodes
    /\ edges' = h.edges
    /\ n_nodes' = h.n_nodes
    /\ n_edges' = h.n_edges
    /\ index' = h.index
    /\ index_objs' = h.index_objs
    /\ uuid' = h.uuid

Init ==
    /\ nodes = EmptyHypergraph.nodes
    /\ edges = EmptyHypergraph.edges
    /\ n_nodes = EmptyHypergraph.n_nodes
    /\ n_edges = EmptyHypergraph.n_edges
    /\ index = EmptyHypergraph.index
    /\ index_objs = EmptyHypergraph.index_objs
    /\ uuid = EmptyHypergraph.uuid
    /\ last = [op |-> "init"]

\* hypergraph.add_node(data)
AddNode ==
    \E data \in InputTexts(HG) : \E o \in add_node(HG, data) :
        /\ Fits(o.h)
        /\ Becomes(o.h)
        /\ last' = [op |-> "add_node", data |-> data, ret |-> o.ret]

\* hypergraph.add_edge(sources, targets, relation) on disjoint non-empty sets
\* of stored nodes.
AddEdge ==
    /\ Len(nodes) + Len(edges) < MaxObjects
    /\ \E sources \in SUBSET StoredNodes(HG) \ {{}} :
       \E targets \in SUBSET (StoredNodes(HG) \ sources) \ {{}} :
       \E o \in add_edge(HG, sources, targets, <<"r">>) :
           /\ Fits(o.h)
           /\ Becomes(o.h)
           /\ last' = [op |-> "add_edge", status |-> o.status, ret |-> o.ret]

\* add_knowledge returns or raises before it touches the hypergraph.
Rejected(concepts, related_concepts, relation) ==
    \/ IsBlank(relation)
    \/ concepts = <<>>
    \/ related_concepts = <<>>
    \/ RepeatedConcept(concepts, related_concepts)

\* rag_system.add_knowledge(concepts, related_concepts, relation).  A call
\* that is not rejected stores an edge, so it needs room for one.
AddKnowledge ==
    \E call \in KnowledgeCalls(HG) :
        /\ Rejected(call[1], call[2], call[3]) \/ Len(nodes) + Len(edges) < MaxObjects
        /\ \E o \in add_knowledge(HG, call[1], call[2], call[3]) :
              /\ Fits(o.h)
              /\ Becomes(o.h)
              /\ last' = [op |-> "add_knowledge", status |-> o.status,
                          repeated |-> RepeatedConcept(call[1], call[2])]

\* hypergraph.query(criteria, top_k) with a positive top_k
Query ==
    \E criteria \in Criteria : \E top_k \in 1..(MaxObjects + 1) :
    \E o \in query(HG, criteria, top_k) :
        /\ last' = [op |-> "query", top_k |-> top_k, status |-> o.status,
                    nodes |-> o.nodes, edges |-> o.edges]
        /\ UNCHANGED <<nodes, edges, n_nodes, n_edges, index, index_objs, uuid>>

\* rag_system.retrieve(query, top_k)
Retrieve ==
    \E query_text \in Criteria \cup { <<" ">> } : \E top_k \in 0..(MaxObjects + 1) :
    \E o \in retrieve(HG, query_text, top_k) :
        /\ last' = [op |-> "retrieve", top_k |-> top_k, status |-> o.status,
                    nodes |-> o.nodes, edges |-> o.edges, knowledge |-> o.knowledge]
        /\ UNCHANGED <<nodes, edges, n_nodes, n_edges, index, index_objs, uuid>>

\* hypergraph.save(...)
Save ==
    \E o \in save(HG) :
        /\ last' = [op |-> "save", status |-> o.status, H |-> o.H,
                    nodes_data |-> o.nodes_data, edges_data |-> o.edges_data]
        /\ UNCHANGED <<nodes, edges, n_nodes, n_edges, index, index_objs, uuid>>

\* The calls of a client, in any order.
Next == AddNode \/ AddEdge \/ AddKnowledge \/ Query \/ Retrieve \/ Save

Spec == Init /\ [][Next]_vars

\* A client of the Hypergraph alone: it adds nodes and edges.
NextEdges == AddNode \/ AddEdge

SpecEdges == Init /\ [][NextEdges]_vars

\* A client that only adds knowledge.
SpecKnowledge == Init /\ [][AddKnowledge]_vars

\* A client of the RAGSystem: it adds knowledge and then retrieves once
\* (retrieve leaves the hypergraph as it is).
NextRag ==
    \/ last.op # "retrieve" /\ AddKnowledge
    \/ last.op # "retrieve" /\ Retrieve

SpecRag == Init /\ [][NextRag]_vars

\* ------------------------------------------------------------------------
\* Properties
\* ------------------------------------------------------------------------

\* The stored state a caller can observe.
store == <<nodes, edges, n_nodes, n_edges, index, index_objs>>

\* C1: node creation is idempotent.  An add_node(t2) right after an
\* add_node(t), t2 equal to t up to letter case, returns the object the first
\* call returned and adds no node, no slot and no sequence number.
C1_IdempotentAddNode ==
    [][ ( /\ last.op = "add_node"
          /\ last'.op = "add_node"
          /\ Lower(last'.data) = Lower(last.data) )
        => ( /\ last'.ret = last.ret
             /\ nodes' = nodes
             /\ index' = index
             /\ index_objs' = index_objs
             /\ n_nodes' = n_nodes ) ]_vars

\* The texts of the members of an edge that are Nodes, cleaned.
CleanTexts(h, objs) ==
    { clean_string(NodeOf(h, obj.id).data) : obj \in { o \in objs : IsNode(o) } }

\* C2: after add_knowledge calls every stored edge has non-empty sources and
\* targets that share no object and no cleaned text, and a call with a
\* concept that cleans equal on both sides ends in a validation error.
C2_Disjoint ==
    /\ \A i \in 1..Len(edges) :
          /\ edges[i].sources # {}
          /\ edges[i].targets # {}
          /\ edges[i].sources \cap edges[i].targets = {}
          /\ CleanTexts(HG, edges[i].sources) \cap CleanTexts(HG, edges[i].targets) = {}
    /\ (last.op = "add_knowledge" /\ last.repeated)
          => last.status \in {"Exception", "ValidationError"}

\* s is the beginning of t.
IsPrefix(s, t) == Len(s) <= Len(t) /\ SubSeq(t, 1, Len(s)) = s

\* Every stored node and edge has exactly one slot, and there are no others.
OneSlotEach(h) ==
    /\ Len(h.index) = Len(h.nodes) + Len(h.edges)
    /\ Len(h.index_objs) = Len(h.nodes) + Len(h.edges)
    /\ \A obj \in StoredNodes(h) \cup StoredEdges(h) :
          Cardinality({ i \in 1..Len(h.index_objs) : h.index_objs[i] = obj }) = 1

\* C3: unified index.  After every call the index and _index_objs have one
\* slot for each stored node and edge, and the call only appended to them.
C3_UnifiedIndex ==
    [][ /\ OneSlotEach(HG')
        /\ IsPrefix(index, index')
        /\ IsPrefix(index_objs, index_objs') ]_vars

HasNumber(h, objs, r) ==
    \E i \in 1..Len(h.nodes) :
        h.nodes[i].node_number = r /\ NodeRef(h.nodes[i].id) \in objs

\* H is the incidence matrix of h: a row for each stored node, a column for
\* each stored edge, +1 where the node of the row is a source of the edge of
\* the column, -1 where it is a target, 0 elsewhere.
IsIncidenceMatrix(h, H) ==
    /\ DOMAIN H = 0..(Len(h.nodes) - 1)
    /\ \A r \in DOMAIN H :
          /\ DOMAIN H[r] = 0..(Len(h.edges) - 1)
          /\ \A c \in DOMAIN H[r] :
                /\ H[r][c] \in {-1, 0, 1}
                /\ HasNumber(h, h.edges[c + 1].sources, r) => H[r][c] = 1
                /\ HasNumber(h, h.edges[c + 1].targets, r) => H[r][c] = -1
                /\ ( /\ ~HasNumber(h, h.edges[c + 1].sources, r)
                     /\ ~HasNumber(h, h.edges[c + 1].targets, r) ) => H[r][c] = 0

\* C5: incidence matrix.  Every save builds the incidence matrix of the
\* hypergraph and leaves the hypergraph as it is.
C5_IncidenceMatrix ==
    [][ last'.op = "save"
        => ( /\ last'.status = "ok"
             /\ IsIncidenceMatrix(HG, last'.H)
             /\ UNCHANGED store ) ]_vars

\* C6: top_k boundary of query.  Every query with a positive top_k succeeds;
\* it returns stored nodes and edges, at most top_k and at most as many as
\* there are slots, and all of them when top_k is no less than the slots.
C6_TopKBoundary ==
    last.op = "query"
    => ( /\ last.status = "ok"
         /\ Cardinality(last.nodes) + Cardinality(last.edges) <= last.top_k
         /\ Cardinality(last.nodes) + Cardinality(last.edges) <= Len(index)
         /\ last.nodes \subseteq StoredNodes(HG)
         /\ last.edges \subseteq StoredEdges(HG)
         /\ last.top_k >= Len(index)
               => (last.nodes = StoredNodes(HG) /\ last.edges = StoredEdges(HG)) )

\* The sources and targets of the edges in edge_refs.
Members(h, edge_refs) ==
    UNION { EdgeOf(h, e.id).sources \cup EdgeOf(h, e.id).targets : e \in edge_refs }

\* The objects of the lines of a text that are bullets of this kind.
LinesOf(knowledge, bullet) ==
    { i \in 1..Len(knowledge) : knowledge[i].bullet = bullet }

\* C7: no duplicate display.  The text of a retrieve is one line for each
\* returned edge, then one line for each returned node that is neither a
\* source nor a target of a returned edge, and nothing else.
C7_NoDuplicateDisplay ==
    (last.op = "retrieve" /\ last.status = "ok")
    => LET knowledge == last.knowledge
           isolated == last.nodes \ Members(HG, last.edges)
       IN  /\ { knowledge[i].obj : i \in LinesOf(knowledge, "edge") } = last.edges
           /\ Cardinality(LinesOf(knowledge, "edge")) = Cardinality(last.edges)
           /\ { knowledge[i].obj : i \in LinesOf(knowledge, "node") } = isolated
           /\ Cardinality(LinesOf(knowledge, "node")) = Cardinality(isolated)
           /\ LinesOf(knowledge, "edge") \cup LinesOf(knowledge, "node")
                 = 1..Len(knowledge)
           /\ \A i \in LinesOf(knowledge, "node") :
                 /\ knowledge[i].text = NodeLine(HG, knowledge[i].obj)
                 /\ \A j \in LinesOf(knowledge, "edge") : j < i

\* C7 witness: a retrieve returned an edge, a node of that edge, which has no
\* line of its own, and a node outside it, which has one.
C7_Witness ==
    /\ last.op = "retrieve"
    /\ last.status = "ok"
    /\ last.edges # {}
    /\ last.nodes \cap Members(HG, last.edges) # {}
    /\ last.nodes \ Members(HG, last.edges) # {}
    /\ LinesOf(last.knowledge, "node") # {}

\* C8: a rejected add_knowledge changes nothing.  Every add_knowledge that
\* does not complete, by the silent return or by an error, leaves nodes,
\* edges, the counters and the index as they were.
C8_RejectedChangesNothing ==
    [][ (last'.op = "add_knowledge" /\ last'.status # "ok")
        => UNCHANGED store ]_vars

\* C9: add_node always returns a Node.  What add_node returns is a stored
\* Node, and every source and target of every stored edge is a stored Node.
C9_AddNodeReturnsNode ==
    /\ last.op = "add_node"
          => (IsNode(last.ret) /\ last.ret \in StoredNodes(HG))
    /\ \A i \in 1..Len(edges) :
          edges[i].sources \cup edges[i].targets \subseteq StoredNodes(HG)

\* n_nodes counts the stored nodes, and the i-th node stored has number i-1.
DenseNumbers(h) ==
    /\ h.n_nodes = Len(h.nodes)
    /\ \A i \in 1..Len(h.nodes) : h.nodes[i].node_number = i - 1

\* C10: sequence numbers are dense and stable.  After every call the node
\* numbers are 0..n_nodes-1 in creation order, the nodes stored before are
\* as they were, and an add_node that returns a node stored before adds no
\* node and uses no number.
C10_DenseStableNumbers ==
    [][ /\ DenseNumbers(HG')
        /\ IsPrefix(nodes, nodes')
        /\ (last'.op = "add_node" /\ last'.ret \in StoredNodes(HG))
              => (nodes' = nodes /\ n_nodes' = n_nodes) ]_vars

\* C10 witness: with two nodes stored, add_node has returned the first of
\* them for a text that is not that node's own.
C10_Witness ==
    /\ last.op = "add_node"
    /\ Len(nodes) >= 2
    /\ n_nodes = 2
    /\ last.ret = NodeRef(nodes[1].id)
    /\ last.data # nodes[1].data

====
